---- MODULE Spec2Model ----
(***************************************************************************)
(* A model of the tool functions of src/server.py: add, get_secret_word,   *)
(* get_current_weather, read_csv_with_arrow, filter_arrow_table_by_expr,   *)
(* plot_dict_and_save and write_table_to_csv.  Every tool is one action    *)
(* that records the call, what it returned or raised, and the side effects *)
(* it had on the file system, the network and pyplot's figure registry.    *)
(***************************************************************************)
EXTENDS Integers, Sequences, FiniteSets, TLC

VARIABLES
    rangeTake,  \* whether the installed pandas keeps a RangeIndex through take()
                \* (pandas 3 does when the labels taken are evenly spaced,
                \* earlier versions give an Index of the labels)
    call,       \* the last tool call: its name and its arguments
    ret,        \* what that call returned, or the exception it raised
    eff,        \* the side effects of that call
    dirs,       \* the directories of the file system
    files,      \* the files of the file system: path -> content
    figs,       \* pyplot's registry: the number of open figures
    rng,        \* the random module's generator: its stream and position
    pcs,        \* concurrent run: each worker's position in its tool
    job,        \* concurrent run: each worker's call
    out,        \* concurrent run: each worker's result
    gcf         \* concurrent run: pyplot's current figure (owner, content)

vars == <<rangeTake, call, ret, eff, dirs, files, figs, rng, pcs, job, out, gcf>>

(***************************************************************************)
(* Bounds of the model.                                                    *)
(***************************************************************************)
MaxRows == 4
MaxFigs == 2
MaxInt == 3
MaxDraws == 2

(***************************************************************************)
(* Values.  Every value is a record with a kind, as the code tells the     *)
(* shapes apart with isinstance.                                           *)
(*   Table      a pyarrow.Table: column names, columns, and the pandas     *)
(*              metadata of its schema: "none" (a table read from CSV),    *)
(*              "range" (the frame had a RangeIndex) or "index" (the last  *)
(*              column, __index_level_0__, is the serialized index)        *)
(*   DataFrame  a pandas.DataFrame: names, columns, index labels, and      *)
(*              whether the index is a RangeIndex                          *)
(*   dict       a column -> values mapping                                 *)
(*   Other      anything else (a list of records, None, a string)          *)
(***************************************************************************)
IndexCol == "__index_level_0__"

Table(names, cols, meta) ==
    [kind |-> "Table", names |-> names, cols |-> cols, meta |-> meta]

DataFrame(names, cols, index, isRange) ==
    [kind |-> "DataFrame", names |-> names, cols |-> cols,
     index |-> index, isRange |-> isRange]

Dict(names, cols) == [kind |-> "dict", names |-> names, cols |-> cols]

Other(tag) == [kind |-> "Other", tag |-> tag]

None == [kind |-> "None"]

Bool(b) == [kind |-> "bool", b |-> b]

Error(exc) == [kind |-> "Error", exc |-> exc]

Returned(v) == [how |-> "return", val |-> v]

Raised(exc) == [how |-> "raise", val |-> Error(exc)]

NumRows(t) == IF t.cols = <<>> THEN 0 ELSE Len(t.cols[1])

Range(n) == [i \in 1..n |-> i - 1]

Take(s, pos) == [k \in 1..Len(pos) |-> s[pos[k]]]

TakeCols(cols, pos) == [c \in 1..Len(cols) |-> Take(cols[c], pos)]

Front(s) == SubSeq(s, 1, Len(s) - 1)

(***************************************************************************)
(* pandas and pyarrow, as far as the tools use them.                       *)
(***************************************************************************)

\* pd.DataFrame(dict): columns of unequal length raise ValueError.
pd_DataFrame(d) ==
    IF \A i, j \in 1..Len(d.cols) : Len(d.cols[i]) = Len(d.cols[j])
    THEN DataFrame(d.names, d.cols, Range(NumRows(d)), TRUE)
    ELSE Error("ValueError")

\* pa.Table.from_pandas(df), preserve_index=None: a RangeIndex is kept as
\* metadata only, any other index is serialized as the column
\* __index_level_0__.
from_pandas(df) ==
    IF df.isRange
    THEN Table(df.names, df.cols, "range")
    ELSE Table(Append(df.names, IndexCol), Append(df.cols, df.index), "index")

\* table.to_pandas(): the index column named by the pandas metadata becomes
\* the index again; without one the frame gets a RangeIndex.
to_pandas(t) ==
    IF t.meta = "index"
    THEN DataFrame(Front(t.names), Front(t.cols), t.cols[Len(t.cols)], FALSE)
    ELSE DataFrame(t.names, t.cols, Range(NumRows(t)), TRUE)

(***************************************************************************)
(* Filter expressions of DataFrame.query: a comparison of a column with a  *)
(* literal, two comparisons joined by and / or, or text that does not      *)
(* parse.                                                                  *)
(***************************************************************************)
Cmp(col, cmp, lit) == [op |-> "cmp", col |-> col, cmp |-> cmp, lit |-> lit]

Bad == [op |-> "bad"]

Junction(op, l, r) == [op |-> op, l |-> l, r |-> r]

ColIdx(names, c) == CHOOSE i \in 1..Len(names) : names[i] = c

HasCol(names, c) == \E i \in 1..Len(names) : names[i] = c

\* Whether query can evaluate e over the columns names: it parses and every
\* name it uses is a column.
Evaluates(e, names) ==
    CASE e.op = "bad" -> FALSE
      [] e.op = "cmp" -> HasCol(names, e.col)
      [] OTHER -> /\ e.l.op = "cmp" /\ HasCol(names, e.l.col)
                  /\ e.r.op = "cmp" /\ HasCol(names, e.r.col)

\* Mutant of Compare: > taken as >=.
CompareInclusive(v, cmp, lit) ==
    CASE cmp = "<" -> v < lit
      [] cmp = "==" -> v = lit
      [] OTHER -> v >= lit

Compare(v, cmp, lit) ==
    CASE cmp = "<" -> v < lit
      [] cmp = "==" -> v = lit
      [] OTHER -> v > lit

SatCmp(e, df, i) == Compare(df.cols[ColIdx(df.names, e.col)][i], e.cmp, e.lit)

\* Whether row i of df satisfies e.
Sat(e, df, i) ==
    CASE e.op = "cmp" -> SatCmp(e, df, i)
      [] e.op = "and" -> SatCmp(e.l, df, i) /\ SatCmp(e.r, df, i)
      [] OTHER -> SatCmp(e.l, df, i) \/ SatCmp(e.r, df, i)

\* The positions of the rows that satisfy e, ascending.
Matching(e, df) ==
    SelectSeq([i \in 1..NumRows(df) |-> i], LAMBDA i : Sat(e, df, i))

\* Whether labels are evenly spaced, so that they can be held as a range.
IsArith(s) ==
    \A k \in 2..(Len(s) - 1) : s[k + 1] - s[k] = s[2] - s[1]

\* The index of the rows taken at pos: an Index of the labels; a pandas that
\* keeps ranges gives a RangeIndex when the labels of a RangeIndex taken are
\* evenly spaced.
TakeIsRange(df, pos, keep) == keep /\ df.isRange /\ IsArith(Take(df.index, pos))

\* df.query(expr): the rows whose mask is true, through loc and take.
query(df, e, keep) ==
    IF ~Evaluates(e, df.names)
    THEN Error("QueryError")
    ELSE LET pos == Matching(e, df)
         IN  DataFrame(df.names, TakeCols(df.cols, pos), Take(df.index, pos),
                       TakeIsRange(df, pos, keep))

(***************************************************************************)
(* filter_arrow_table_by_expr(table, filter_expr)                          *)
(***************************************************************************)

\* Lines 92-97: the local name table is rebound to the converted table.
FilterNormalize(table) ==
    CASE table.kind = "dict" ->
            LET df == pd_DataFrame(table)
            IN  IF df.kind = "Error" THEN df ELSE from_pandas(df)
      [] table.kind = "DataFrame" -> from_pandas(table)
      [] OTHER -> table

\* Mutant of filter_arrow_table_by_expr: a failed query gives an empty table
\* in place of the unfiltered one.
filter_empty_on_error(table, e, keep) ==
    LET t == FilterNormalize(table)
    IN  IF t.kind = "Error" THEN Returned(table)
        ELSE IF t.kind # "Table" THEN Returned(t)
        ELSE LET filtered == query(to_pandas(t), e, keep)
             IN  IF filtered.kind = "Error"
                 THEN Returned(Table(t.names, [c \in 1..Len(t.cols) |-> <<>>], t.meta))
                 ELSE Returned(from_pandas(filtered))

filter_arrow_table_by_expr(table, e, keep) ==
    LET t == FilterNormalize(table)
    IN  IF t.kind = "Error" THEN Returned(table)           \* except: table not yet rebound
        ELSE IF t.kind # "Table" THEN Returned(t)          \* to_pandas: AttributeError, caught
        ELSE LET filtered == query(to_pandas(t), e, keep)
             IN  IF filtered.kind = "Error" THEN Returned(t) \* except: the rebound table
                 ELSE Returned(from_pandas(filtered))

(***************************************************************************)
(* The file system.  A path is the sequence of its pieces: names, "/" and  *)
(* ".", so that "o.d/t" is <<"o", ".", "d", "/", "t">>.  Nothing can be    *)
(* created under the directory "ro".                                       *)
(***************************************************************************)
Str(p) == [kind |-> "str", path |-> p]

\* The last position of piece in p, 0 when p has none.
LastIndexOf(p, piece) ==
    LET hits == {i \in 1..Len(p) : p[i] = piece}
    IN  IF hits = {} THEN 0 ELSE CHOOSE i \in hits : \A j \in hits : j <= i

\* os.path.dirname(p)
os_path_dirname(p) == SubSeq(p, 1, LastIndexOf(p, "/") - 1)

\* os.path.exists(p)
os_path_exists(p, ds, fs) == p \in ds \/ p \in DOMAIN fs

ReadOnly(p) == Len(p) >= 1 /\ p[1] = "ro"

\* p and the directories above it.
Ancestors(p) == {SubSeq(p, 1, i - 1) : i \in {j \in 1..Len(p) : p[j] = "/"}} \cup {p}

\* os.makedirs(d) succeeds unless d lies under "ro", exists, or a file is in
\* the way.
CanMakedirs(d, ds, fs) ==
    /\ ~ReadOnly(d)
    /\ ~os_path_exists(d, ds, fs)
    /\ \A a \in Ancestors(d) : a \notin DOMAIN fs

\* Opening p for writing succeeds when its directory exists, p is no
\* directory and p is not under "ro".
CanWrite(p, ds, fs) ==
    /\ ~ReadOnly(p)
    /\ p \notin ds
    /\ os_path_dirname(p) = <<>> \/ os_path_dirname(p) \in ds

Put(fs, p, content) == [q \in DOMAIN fs \cup {p} |-> IF q = p THEN content ELSE fs[q]]

NoFiles == [q \in {} |-> None]

(***************************************************************************)
(* Delimited text, as pyarrow.csv writes and reads it: a header line of    *)
(* quoted column names, then one line per row of unquoted decimal numbers. *)
(***************************************************************************)
Digit == <<"0", "1", "2", "3", "4", "5", "6", "7", "8", "9">>

RECURSIVE IntToDigits(_)
IntToDigits(n) ==
    IF n < 10 THEN <<Digit[n + 1]>>
    ELSE Append(IntToDigits(n \div 10), Digit[(n % 10) + 1])

DigitValue(d) == (CHOOSE k \in 1..10 : Digit[k] = d) - 1

RECURSIVE DigitsToInt(_)
DigitsToInt(ds) ==
    IF Len(ds) = 1 THEN DigitValue(ds[1])
    ELSE 10 * DigitsToInt(Front(ds)) + DigitValue(ds[Len(ds)])

Quoted(name) == [quoted |-> TRUE, text |-> name]

Number(n) == [quoted |-> FALSE, digits |-> IntToDigits(n)]

\* pacsv.write_csv(table, path): the text written.
csv_text(t) ==
    [fmt |-> "csv",
     header |-> [c \in 1..Len(t.names) |-> Quoted(t.names[c])],
     lines |-> [i \in 1..NumRows(t) |-> [c \in 1..Len(t.cols) |-> Number(t.cols[c][i])]]]

\* pacsv.read_csv(path) of a file's content: a table without pandas metadata,
\* or ArrowInvalid for what is no delimited text.
csv_parse(content) ==
    IF content.fmt # "csv" THEN Error("ArrowInvalid")
    ELSE Table([c \in 1..Len(content.header) |-> content.header[c].text],
               [c \in 1..Len(content.header) |->
                    [i \in 1..Len(content.lines) |-> DigitsToInt(content.lines[i][c].digits)]],
               "none")

(***************************************************************************)
(* write_table_to_csv(table, output_path).  The result is what the call    *)
(* returned or raised, and the files after it.                             *)
(***************************************************************************)
Outcome(r, ds, fs, made, opened) ==
    [ret |-> r, dirs |-> ds, files |-> fs, made |-> made, opened |-> opened]

\* Lines 169-175 : the conversions inside the try block.
WriteNormalize(table) ==
    CASE table.kind = "dict" ->
            LET df == pd_DataFrame(table)
            IN  IF df.kind = "Error" THEN df ELSE from_pandas(df)
      [] table.kind = "DataFrame" -> from_pandas(table)
      [] table.kind = "Table" -> table
      [] OTHER -> Error("TypeError")

\* Line 166 reads table.num_rows before the try block: only a pyarrow.Table
\* has the attribute.
HasNumRows(table) == table.kind = "Table"

write_table_to_csv(table, path, ds, fs) ==
    IF ~HasNumRows(table) THEN Outcome(Raised("AttributeError"), ds, fs, {}, 0)
    ELSE LET t == WriteNormalize(table)
         IN  IF t.kind = "Error" \/ ~CanWrite(path, ds, fs)
             THEN Outcome(Returned(Bool(FALSE)), ds, fs, {}, 0)
             ELSE Outcome(Returned(Bool(TRUE)), ds, Put(fs, path, csv_text(t)), {path}, 0)

(***************************************************************************)
(* read_csv_with_arrow(file_path, display_data, to_parquet, parquet_path)  *)
(***************************************************************************)

\* Line 63: file_path.rsplit('.', 1)[0] + '.parquet'
DefaultParquetPath(p) ==
    (IF LastIndexOf(p, ".") = 0 THEN p ELSE SubSeq(p, 1, LastIndexOf(p, ".") - 1))
    \o <<".", "parquet">>

ParquetTarget(file_path, parquet_path) ==
    IF parquet_path.kind = "None" THEN DefaultParquetPath(file_path) ELSE parquet_path.path

read_csv_with_arrow(file_path, display_data, to_parquet, parquet_path, ds, fs) ==
    IF file_path \notin DOMAIN fs THEN Outcome(Returned(None), ds, fs, {}, 0)
    ELSE LET table == csv_parse(fs[file_path])
             target == ParquetTarget(file_path, parquet_path)
         IN  IF table.kind = "Error" THEN Outcome(Returned(None), ds, fs, {}, 0)
             ELSE IF ~to_parquet THEN Outcome(Returned(table), ds, fs, {}, 0)
             ELSE IF ~CanWrite(target, ds, fs) THEN Outcome(Returned(None), ds, fs, {}, 0)
             ELSE Outcome(Returned(table), ds,
                          Put(fs, target, [fmt |-> "parquet", table |-> table]),
                          {target}, 0)

(***************************************************************************)
(* plot_dict_and_save(data, title, xlabel, ylabel, save_path)              *)
(***************************************************************************)
Chart(keys, values) == [kind |-> "dict", keys |-> keys, values |-> values]

Png(data, title) ==
    [fmt |-> "png", keys |-> data.keys, values |-> data.values, title |-> title]

\* Mutant of WithDirs: os.mkdir in place of os.makedirs, which makes the last
\* directory only when the one above it exists.
WithLastDirOnly(d, ds) ==
    IF os_path_dirname(d) = <<>> \/ os_path_dirname(d) \in ds THEN ds \cup {d} ELSE ds

\* Lines 144-146: the directories after the directory of save_path was made.
WithDirs(d, ds) == ds \cup (Ancestors(d) \ {<<>>})

plot_dict_and_save(data, title, save_path, ds, fs) ==
    IF data.kind # "dict" THEN Outcome(Raised("ValueError"), ds, fs, {}, 0)
    ELSE IF save_path.kind = "None" THEN Outcome(Raised("TypeError"), ds, fs, {}, 1)
    ELSE LET dir_name == os_path_dirname(save_path.path)
             mk == dir_name # <<>> /\ ~os_path_exists(dir_name, ds, fs)
         IN  IF mk /\ ~CanMakedirs(dir_name, ds, fs)
             THEN Outcome(Raised("OSError"), ds, fs, {}, 1)
             ELSE LET ds2 == IF mk THEN WithDirs(dir_name, ds) ELSE ds
                      made == ds2 \ ds
                  IN  IF ~CanWrite(save_path.path, ds2, fs)
                      THEN Outcome(Raised("OSError"), ds2, fs, made, 1)
                      ELSE Outcome(Returned(None), ds2,
                                   Put(fs, save_path.path, Png(data, title)),
                                   made \cup {save_path.path}, 0)

(***************************************************************************)
(* add, get_secret_word and get_current_weather.                           *)
(***************************************************************************)
IntVal(n) == [kind |-> "int", n |-> n]

Text(t) == [kind |-> "text", text |-> t]

add(a, b) == Returned(IntVal(a + b))

Words == <<"apple", "banana", "cherry">>

\* random.choice(list): the next draw of the generator picks the element.
get_secret_word(draw) == Returned(Text(Words[draw]))

Endpoint == "https://wttr.in"

Url(city) == <<Endpoint, "/", city>>

\* Mutant of get_current_weather: a failed request is caught and an empty
\* text returned.
get_current_weather_caught(city, net) ==
    [ret |-> IF net.ok THEN Returned(Text(net.body)) ELSE Returned(Text("")),
     gets |-> <<Url(city)>>]

\* requests.get(url) answers with a body or raises; response.text is returned.
get_current_weather(city, net) ==
    [ret |-> IF net.ok THEN Returned(Text(net.body)) ELSE Raised(net.exc),
     gets |-> <<Url(city)>>]

(***************************************************************************)
(* Inputs.                                                                 *)
(***************************************************************************)
Cells == {0, 1}

SeqsOf(S, n) == [1..n -> S]

NameLists == {<<"a">>, <<"a", "b">>}

\* Rectangular data: names and as many columns, each of n rows.
Rect(n) ==
    UNION {{[names |-> ns, cols |-> cs] : cs \in SeqsOf(SeqsOf(Cells, n), Len(ns))} :
             ns \in NameLists}

\* Index labels other than a RangeIndex: 0,1,2,.. held as an Index, or 1,3,5,..
Labels(n) == {[i \in 1..n |-> k * i - 1] : k \in 1..2}

TablesOf(n) ==
    {Table(d.names, d.cols, m) : d \in Rect(n), m \in {"none", "range"}}
    \cup {Table(Append(d.names, IndexCol), Append(d.cols, l), "index") :
            d \in Rect(n), l \in Labels(n)}

FramesOf(n) ==
    {DataFrame(d.names, d.cols, Range(n), TRUE) : d \in Rect(n)}
    \cup {DataFrame(d.names, d.cols, l, FALSE) : d \in Rect(n), l \in Labels(n)}

DictsOf(n) == {Dict(d.names, d.cols) : d \in Rect(n)}

\* A mapping whose columns differ in length.
Ragged == {Dict(<<"a", "b">>, <<<<x>>, <<>>>>) : x \in Cells}

Others == {Other("list"), Other("str")}

Shapes == UNION {TablesOf(n) \cup FramesOf(n) \cup DictsOf(n) : n \in 0..MaxRows}

Inputs == Shapes \cup Ragged \cup Others

Atoms == {Cmp(c, o, l) : c \in {"a", "b", "zz"}, o \in {"<", "==", ">"}, l \in Cells}

Exprs ==
    Atoms \cup {Bad}
    \cup {Junction(op, Cmp("a", o1, 0), Cmp(c, o2, 1)) :
            op \in {"and", "or"}, o1 \in {"==", ">"}, c \in {"b", "zz"}, o2 \in {"<", "=="}}

\* Paths.
RoDir == <<"ro">>

DotDir == <<"o", ".", "d">>

CsvPaths ==
    {<<"t", ".", "csv">>, <<"o", ".", "d", "/", "t">>,
     <<"ro", "/", "t", ".", "csv">>, <<"new", "/", "t", ".", "csv">>}

ReadPaths == CsvPaths \cup {<<"c", ".", "png">>}

ParquetPaths ==
    {None, Str(<<"p", ".", "parquet">>), Str(<<"ro", "/", "p", ".", "parquet">>)}

SavePaths ==
    {None, Str(<<"c", ".", "png">>), Str(<<"out", "/", "dir", "/", "c", ".", "png">>),
     Str(<<"ro", "/", "x", "/", "c", ".", "png">>), Str(DotDir),
     Str(<<"t", ".", "csv", "/", "c", ".", "png">>)}

\* Values written and plotted.
Example == [names |-> <<"a", "b">>, cols |-> <<<<1, 2>>, <<3, 4>>>>]

IOTables ==
    {Table(Example.names, Example.cols, "none"),
     Table(<<"a">>, <<<<>>>>, "range"),
     Table(<<"a", IndexCol>>, <<<<12>>, <<3>>>>, "index")}

WriteInputs ==
    IOTables \cup {Dict(Example.names, Example.cols),
                   DataFrame(Example.names, Example.cols, Range(2), TRUE),
                   Other("list")}

PlotInputs == {Chart(<<"x", "y">>, <<1, 2>>), Chart(<<>>, <<>>), Other("list")}

Ints == (0 - MaxInt)..MaxInt

Cities == {"Paris", "Oslo", "a/b"}

\* What the network does with a request: a body, or a transport error.
Network ==
    {[ok |-> TRUE, body |-> b, exc |-> "none"] : b \in {"Sunny +20C", "", "404 Not Found"}}
    \cup {[ok |-> FALSE, body |-> "", exc |-> e] : e \in {"ConnectionError", "Timeout"}}

\* The streams the generator may hold: the draws to come, as positions in a
\* list of three.
Streams == SeqsOf(1..3, MaxDraws)

NoEffect == [gets |-> <<>>, opened |-> 0, made |-> {}]

Idle == [op |-> "none"]

(***************************************************************************)
(* The state after the server is constructed: nothing called yet.          *)
(***************************************************************************)
Init ==
    /\ rangeTake \in BOOLEAN
    /\ call = Idle
    /\ ret = Returned(None)
    /\ eff = NoEffect
    /\ dirs = {RoDir, DotDir}
    /\ files = NoFiles
    /\ figs = 0
    /\ rng = [stream |-> <<>>, pos |-> 0]
    /\ pcs = <<>>
    /\ job = <<>>
    /\ out = <<>>
    /\ gcf = None

\* The dispatch boundary has marshalled the result back: the server is idle
\* again.  The file system and pyplot's registry stay as the call left them.
Respond ==
    /\ call # Idle
    /\ call' = Idle
    /\ ret' = Returned(None)
    /\ eff' = NoEffect
    /\ UNCHANGED <<rangeTake, dirs, files, figs, rng, pcs, job, out, gcf>>

FilterCall ==
    /\ call = Idle
    /\ \E table \in Inputs, e \in Exprs :
        /\ call' = [op |-> "filter", table |-> table, expr |-> e]
        /\ ret' = filter_arrow_table_by_expr(table, e, rangeTake)
        /\ eff' = NoEffect
        /\ UNCHANGED <<rangeTake, dirs, files, figs, rng, pcs, job, out, gcf>>

\* A call with its outcome: the result, the side effects, the file system and
\* the figure registry after it.
Complete(c, o) ==
    /\ call' = c
    /\ ret' = o.ret
    /\ eff' = [gets |-> <<>>, opened |-> o.opened, made |-> o.made]
    /\ dirs' = o.dirs
    /\ files' = o.files
    /\ figs' = figs + o.opened
    /\ UNCHANGED <<rangeTake, rng, pcs, job, out, gcf>>

WriteCall ==
    /\ call = Idle
    /\ \E table \in WriteInputs, path \in CsvPaths :
        Complete([op |-> "write", table |-> table, path |-> path],
                 write_table_to_csv(table, path, dirs, files))

ReadCall ==
    /\ call = Idle
    /\ \E path \in ReadPaths, display \in BOOLEAN, to_parquet \in BOOLEAN,
          parquet_path \in ParquetPaths :
        Complete([op |-> "read", path |-> path, display |-> display,
                  to_parquet |-> to_parquet, parquet_path |-> parquet_path],
                 read_csv_with_arrow(path, display, to_parquet, parquet_path, dirs, files))

PlotCall ==
    /\ call = Idle
    /\ figs < MaxFigs
    /\ \E data \in PlotInputs, save_path \in SavePaths :
        Complete([op |-> "plot", data |-> data, title |-> "Dict Plot",
                  save_path |-> save_path],
                 plot_dict_and_save(data, "Dict Plot", save_path, dirs, files))

NextIO == WriteCall \/ ReadCall \/ PlotCall \/ Respond

SpecIO == Init /\ [][NextIO]_vars

\* The state after construction, with the generator seeded.
InitSeeded ==
    /\ rangeTake = FALSE
    /\ call = Idle
    /\ ret = Returned(None)
    /\ eff = NoEffect
    /\ dirs = {RoDir, DotDir}
    /\ files = NoFiles
    /\ figs = 0
    /\ rng \in {[stream |-> st, pos |-> 0] : st \in Streams}
    /\ pcs = <<>>
    /\ job = <<>>
    /\ out = <<>>
    /\ gcf = None

AddCall ==
    /\ call = Idle
    /\ \E a \in Ints, b \in Ints :
        /\ call' = [op |-> "add", a |-> a, b |-> b]
        /\ ret' = add(a, b)
        /\ eff' = NoEffect
        /\ UNCHANGED <<rangeTake, dirs, files, figs, rng, pcs, job, out, gcf>>

SecretWordCall ==
    /\ call = Idle
    /\ rng.pos < Len(rng.stream)
    /\ call' = [op |-> "secret"]
    /\ ret' = get_secret_word(rng.stream[rng.pos + 1])
    /\ rng' = [rng EXCEPT !.pos = @ + 1]
    /\ eff' = NoEffect
    /\ UNCHANGED <<rangeTake, dirs, files, figs, pcs, job, out, gcf>>

WeatherCall ==
    /\ call = Idle
    /\ \E city \in Cities, net \in Network :
        /\ call' = [op |-> "weather", city |-> city, net |-> net]
        /\ ret' = get_current_weather(city, net).ret
        /\ eff' = [NoEffect EXCEPT !.gets = get_current_weather(city, net).gets]
        /\ UNCHANGED <<rangeTake, dirs, files, figs, rng, pcs, job, out, gcf>>

NextNet == AddCall \/ SecretWordCall \/ WeatherCall \/ Respond

SpecNet == InitSeeded /\ [][NextNet]_vars

(***************************************************************************)
(* Two tools running at once.  Each worker runs one call statement by      *)
(* statement; the workers share the file system and the process-wide state *)
(* of the libraries: pyplot's figure registry with its current figure, and *)
(* the generator of the random module.                                     *)
(***************************************************************************)
Workers == {1, 2}

TCsv == <<"t", ".", "csv">>

ConcDirs == {RoDir, DotDir}

ConcFiles == Put(NoFiles, TCsv, csv_text(Example))

Figure(w, keys, values) == [kind |-> "Figure", owner |-> w, keys |-> keys, values |-> values]

ConcJobs ==
    {[op |-> "plot", data |-> d, title |-> "Dict Plot", save_path |-> sp] :
        d \in {Chart(<<"x", "y">>, <<1, 2>>), Other("list")},
        sp \in {None, Str(<<"c", ".", "png">>), Str(<<"out", "/", "dir", "/", "c", ".", "png">>)}}
    \cup {[op |-> "write", table |-> t, path |-> p] :
            t \in {Table(Example.names, Example.cols, "none"), Dict(Example.names, Example.cols)},
            p \in {<<"w", ".", "csv">>, <<"ro", "/", "t", ".", "csv">>}}
    \cup {[op |-> "read", path |-> p, display |-> TRUE, to_parquet |-> tp,
           parquet_path |-> None, local |-> None] :
            p \in {TCsv, <<"c", ".", "png">>}, tp \in BOOLEAN}
    \cup {[op |-> "secret"]}
    \cup {[op |-> "add", a |-> 1, b |-> 2]}
    \cup {[op |-> "filter", table |-> Dict(Example.names, Example.cols), expr |-> e] :
            e \in {Cmp("a", ">", 1), Bad}}
    \cup {[op |-> "weather", city |-> "Oslo", net |-> n] : n \in Network}

\* The paths a call may create or write.
Writes(j) ==
    CASE j.op = "plot" /\ j.save_path.kind = "str" ->
            Ancestors(os_path_dirname(j.save_path.path)) \cup {j.save_path.path}
      [] j.op = "write" -> {j.path}
      [] j.op = "read" /\ j.to_parquet -> {ParquetTarget(j.path, j.parquet_path)}
      [] OTHER -> {}

\* The paths a call looks at or writes.
Touches(j) ==
    Writes(j) \cup (IF j.op \in {"read", "write"} THEN Ancestors(j.path) ELSE {})

Disjoint(j1, j2) ==
    /\ (Writes(j1) \ {<<>>}) \cap Touches(j2) = {}
    /\ (Writes(j2) \ {<<>>}) \cap Touches(j1) = {}

InitConc ==
    /\ rangeTake = FALSE
    /\ call = Idle
    /\ ret = Returned(None)
    /\ eff = NoEffect
    /\ dirs = ConcDirs
    /\ files = ConcFiles
    /\ figs = 0
    /\ rng \in {[stream |-> st, pos |-> 0] : st \in Streams}
    /\ job \in {j \in [Workers -> ConcJobs] : j[1].op # j[2].op /\ Disjoint(j[1], j[2])}
    /\ pcs = [w \in Workers |-> "start"]
    /\ out = [w \in Workers |-> Returned(None)]
    /\ gcf = None

Goto(w, pc) == pcs' = [pcs EXCEPT ![w] = pc]

Result(w, r) == out' = [out EXCEPT ![w] = r]

At(w, op, pc) == job[w].op = op /\ pcs[w] = pc

ConcFrame == UNCHANGED <<rangeTake, call, ret, eff>>

\* Line 127: the check of data.
PlotCheck(w) ==
    /\ At(w, "plot", "start")
    /\ IF job[w].data.kind # "dict"
       THEN Goto(w, "done") /\ Result(w, Raised("ValueError"))
       ELSE Goto(w, "figure") /\ UNCHANGED out
    /\ ConcFrame /\ UNCHANGED <<dirs, files, figs, rng, job, gcf>>

\* Line 135: plt.figure() registers a new figure and makes it current.
PlotFigure(w) ==
    /\ At(w, "plot", "figure")
    /\ figs' = figs + 1
    /\ gcf' = Figure(w, <<>>, <<>>)
    /\ Goto(w, "bar")
    /\ ConcFrame /\ UNCHANGED <<dirs, files, rng, job, out>>

\* Lines 136-141: plt.bar and the labels draw on the current figure; pyplot
\* makes one when there is none.
PlotBar(w) ==
    /\ At(w, "plot", "bar")
    /\ figs' = IF gcf.kind = "None" THEN figs + 1 ELSE figs
    /\ gcf' = Figure(IF gcf.kind = "None" THEN w ELSE gcf.owner,
                     job[w].data.keys, job[w].data.values)
    /\ Goto(w, "makedirs")
    /\ ConcFrame /\ UNCHANGED <<dirs, files, rng, job, out>>

\* Lines 144-146: the directory of save_path is made when it is missing.
PlotMakedirs(w) ==
    /\ At(w, "plot", "makedirs")
    /\ IF job[w].save_path.kind = "None"
       THEN Goto(w, "done") /\ Result(w, Raised("TypeError")) /\ UNCHANGED dirs
       ELSE LET dir_name == os_path_dirname(job[w].save_path.path)
                mk == dir_name # <<>> /\ ~os_path_exists(dir_name, dirs, files)
            IN  IF mk /\ ~CanMakedirs(dir_name, dirs, files)
                THEN Goto(w, "done") /\ Result(w, Raised("OSError")) /\ UNCHANGED dirs
                ELSE /\ dirs' = IF mk THEN WithDirs(dir_name, dirs) ELSE dirs
                     /\ Goto(w, "savefig")
                     /\ UNCHANGED out
    /\ ConcFrame /\ UNCHANGED <<files, figs, rng, job, gcf>>

\* Line 149: plt.savefig writes the current figure.
PlotSavefig(w) ==
    /\ At(w, "plot", "savefig")
    /\ figs' = IF gcf.kind = "None" THEN figs + 1 ELSE figs
    /\ gcf' = IF gcf.kind = "None" THEN Figure(w, <<>>, <<>>) ELSE gcf
    /\ IF CanWrite(job[w].save_path.path, dirs, files)
       THEN /\ files' = Put(files, job[w].save_path.path,
                            [fmt |-> "png", keys |-> gcf'.keys, values |-> gcf'.values,
                             title |-> job[w].title])
            /\ Goto(w, "return")
            /\ Result(w, Returned(None))
       ELSE Goto(w, "done") /\ Result(w, Raised("OSError")) /\ UNCHANGED files
    /\ ConcFrame /\ UNCHANGED <<dirs, rng, job>>

\* Line 166: table.num_rows is read before the try block.
WriteCheck(w) ==
    /\ At(w, "write", "start")
    /\ IF ~HasNumRows(job[w].table)
       THEN Goto(w, "done") /\ Result(w, Raised("AttributeError"))
       ELSE Goto(w, "write_csv") /\ UNCHANGED out
    /\ ConcFrame /\ UNCHANGED <<dirs, files, figs, rng, job, gcf>>

\* Lines 167-182: the conversion and pacsv.write_csv.
WriteCsv(w) ==
    /\ At(w, "write", "write_csv")
    /\ LET t == WriteNormalize(job[w].table)
       IN  IF t.kind = "Error" \/ ~CanWrite(job[w].path, dirs, files)
           THEN Result(w, Returned(Bool(FALSE))) /\ UNCHANGED files
           ELSE /\ Result(w, Returned(Bool(TRUE)))
                /\ files' = Put(files, job[w].path, csv_text(t))
    /\ Goto(w, "return")
    /\ ConcFrame /\ UNCHANGED <<dirs, figs, rng, job, gcf>>

\* Lines 53-58: pacsv.read_csv and the display of the first rows.
ReadCsv(w) ==
    /\ At(w, "read", "start")
    /\ LET table == IF job[w].path \in DOMAIN files
                    THEN csv_parse(files[job[w].path]) ELSE Error("FileNotFoundError")
       IN  IF table.kind = "Error"
           THEN Goto(w, "return") /\ Result(w, Returned(None)) /\ UNCHANGED job
           ELSE /\ Goto(w, "parquet")
                /\ job' = [job EXCEPT ![w].local = table]
                /\ UNCHANGED out
    /\ ConcFrame /\ UNCHANGED <<dirs, files, figs, rng, gcf>>

\* Lines 60-67: the columnar write, then the table is returned.
ReadParquet(w) ==
    /\ At(w, "read", "parquet")
    /\ LET target == ParquetTarget(job[w].path, job[w].parquet_path)
       IN  IF ~job[w].to_parquet
           THEN Result(w, Returned(job[w].local)) /\ UNCHANGED files
           ELSE IF ~CanWrite(target, dirs, files)
           THEN Result(w, Returned(None)) /\ UNCHANGED files
           ELSE /\ Result(w, Returned(job[w].local))
                /\ files' = Put(files, target, [fmt |-> "parquet", table |-> job[w].local])
    /\ Goto(w, "return")
    /\ ConcFrame /\ UNCHANGED <<dirs, figs, rng, job, gcf>>

\* Line 25: random.choice draws from the generator of the module.
SecretDraw(w) ==
    /\ At(w, "secret", "start")
    /\ rng.pos < Len(rng.stream)
    /\ Result(w, get_secret_word(rng.stream[rng.pos + 1]))
    /\ rng' = [rng EXCEPT !.pos = @ + 1]
    /\ Goto(w, "return")
    /\ ConcFrame /\ UNCHANGED <<dirs, files, figs, job, gcf>>

\* add, filter_arrow_table_by_expr and get_current_weather work on their
\* arguments alone.
Compute(w) ==
    /\ pcs[w] = "start"
    /\ job[w].op \in {"add", "filter", "weather"}
    /\ Result(w, CASE job[w].op = "add" -> add(job[w].a, job[w].b)
                   [] job[w].op = "filter" ->
                        filter_arrow_table_by_expr(job[w].table, job[w].expr, rangeTake)
                   [] OTHER -> get_current_weather(job[w].city, job[w].net).ret)
    /\ Goto(w, "return")
    /\ ConcFrame /\ UNCHANGED <<dirs, files, figs, rng, job, gcf>>

\* Mutant of ClosesFigure: every tool ends with plt.close().
ClosesFigureAlways(op) == TRUE

\* Line 150: of the tools only plot_dict_and_save calls plt.close().
ClosesFigure(op) == op = "plot"

\* The end of a call that did not raise; plt.close() closes the current
\* figure.
Return(w) ==
    /\ pcs[w] = "return"
    /\ IF ClosesFigure(job[w].op) /\ gcf.kind # "None"
       THEN figs' = figs - 1 /\ gcf' = None
       ELSE UNCHANGED <<figs, gcf>>
    /\ Goto(w, "done")
    /\ ConcFrame /\ UNCHANGED <<dirs, files, rng, job, out>>

WorkerStep(w) ==
    \/ PlotCheck(w) \/ PlotFigure(w) \/ PlotBar(w) \/ PlotMakedirs(w) \/ PlotSavefig(w)
    \/ WriteCheck(w) \/ WriteCsv(w)
    \/ ReadCsv(w) \/ ReadParquet(w)
    \/ SecretDraw(w) \/ Compute(w)
    \/ Return(w)

NextConc == \E w \in Workers : WorkerStep(w)

SpecConc == InitConc /\ [][NextConc]_vars

NextFilter == FilterCall \/ Respond

SpecFilter == Init /\ [][NextFilter]_vars

(***************************************************************************)
(* Properties of filter_arrow_table_by_expr.                               *)
(***************************************************************************)

\* The shapes the filter accepts: a native table, a mapping with columns of
\* one length, a DataFrame.
Accepted(v) ==
    \/ v.kind \in {"Table", "DataFrame"}
    \/ v.kind = "dict" /\ pd_DataFrame(v).kind # "Error"

\* The data columns of a value: its columns but a serialized index.
DataNames(v) == SelectSeq(v.names, LAMBDA c : c # IndexCol)

\* The rows of a value over its data columns, each a column -> cell mapping.
RowsOf(v) ==
    LET ns == DataNames(v)
    IN  [i \in 1..NumRows(v) |->
            [k \in 1..Len(ns) |-> <<ns[k], v.cols[ColIdx(v.names, ns[k])][i]>>]]

Cell(row, c) == row[CHOOSE k \in 1..Len(row) : row[k][1] = c][2]

Holds1(e, row) ==
    CASE e.cmp = "<" -> Cell(row, e.col) < e.lit
      [] e.cmp = "==" -> Cell(row, e.col) = e.lit
      [] OTHER -> Cell(row, e.col) > e.lit

RowHolds(e, row) ==
    CASE e.op = "cmp" -> Holds1(e, row)
      [] e.op = "and" -> Holds1(e.l, row) /\ Holds1(e.r, row)
      [] OTHER -> Holds1(e.l, row) \/ Holds1(e.r, row)

FilterDone == call.op = "filter"

EvalFailed == FilterDone /\ Accepted(call.table) /\ ~Evaluates(call.expr, DataNames(call.table))

EvalOk == FilterDone /\ Accepted(call.table) /\ Evaluates(call.expr, DataNames(call.table))

\* C3 as stated: on an evaluation failure the filter returns a value equal to
\* the input it was called with, for every accepted shape.
C3_ReturnsInputItself == EvalFailed => ret = Returned(call.table)

\* C3 amended: on an evaluation failure the filter does not raise and returns
\* the unfiltered table: a native table itself, and for a mapping or a
\* DataFrame the table it was converted to, which holds every row and column
\* of the input with its values and, read back as a frame, the input's index.
C3_ReturnsUnfilteredTable ==
    EvalFailed =>
        /\ ret.how = "return"
        /\ ret.val.kind = "Table"
        /\ call.table.kind = "Table" => ret.val = call.table
        /\ RowsOf(ret.val) = RowsOf(call.table)
        /\ DataNames(ret.val) = DataNames(call.table)
        /\ call.table.kind = "DataFrame" => to_pandas(ret.val).index = call.table.index
        /\ call.table.kind = "dict" => ret.val.names = call.table.names

C3_Witness ==
    /\ EvalFailed
    /\ call.table.kind = "dict"
    /\ NumRows(call.table) = 2
    /\ call.expr.op = "cmp"

\* C4: for each accepted shape and an expression that evaluates, the filter
\* returns a table whose rows, over the data columns, are exactly the rows of
\* the input that satisfy the expression, in their original order.
C4_ReturnsMatchingRows ==
    EvalOk =>
        /\ ret.how = "return"
        /\ ret.val.kind = "Table"
        /\ RowsOf(ret.val) = SelectSeq(RowsOf(call.table), LAMBDA r : RowHolds(call.expr, r))

C4_Witness ==
    /\ EvalOk
    /\ call.table.kind = "DataFrame"
    /\ call.expr.op = "and"
    /\ NumRows(call.table) = 3
    /\ NumRows(ret.val) = 2

\* C5 as stated: the table the filter returns has exactly the ordered column
\* names of the normalized input, whatever the predicate matches.
C5_SameColumns ==
    EvalOk => ret.val.names = FilterNormalize(call.table).names

(***************************************************************************)
(* Properties of write_table_to_csv, read_csv_with_arrow and               *)
(* plot_dict_and_save.                                                     *)
(***************************************************************************)
WriteDone == call.op = "write"

\* C1 as stated: write_table_to_csv never raises; for every table and path
\* it returns a boolean, true exactly when the file was written.
C1_WriteNeverRaises ==
    WriteDone =>
        /\ ret.how = "return"
        /\ ret.val.kind = "bool"
        /\ ret.val.b <=> call.path \in eff.made

\* C2 as stated: a column -> values mapping and a writable path give a file
\* with one column per key and one row per position, whose parsed-back
\* content equals the mapping, and the call returns true.
C2_MappingWritten ==
    (WriteDone /\ call.table.kind = "dict" /\ CanWrite(call.path, dirs, files)) =>
        /\ ret = Returned(Bool(TRUE))
        /\ call.path \in DOMAIN files
        /\ csv_parse(files[call.path]).names = call.table.names
        /\ csv_parse(files[call.path]).cols = call.table.cols

PlotDone == call.op = "plot"

\* C6 as stated: whichever way plot_dict_and_save ends, no figure it opened
\* stays open.
C6_FigureReleased == PlotDone => eff.opened = 0

\* The step of C7: with a mapping and a save path in a directory that does not exist
\* (and can be made), the call makes the directory with those above it and
\* leaves an image at the path; with data that is no mapping it raises
\* ValueError and leaves the file system as it was.
C7_PlotStep ==
    LET path == call'.save_path.path
        dir_name == os_path_dirname(path)
    IN  /\ (/\ call'.data.kind = "dict"
            /\ call'.save_path.kind = "str"
            /\ dir_name # <<>>
            /\ ~os_path_exists(dir_name, dirs, files)
            /\ ~ReadOnly(path))
           => /\ ret'.how = "return"
              /\ Ancestors(dir_name) \subseteq dirs'
              /\ path \in DOMAIN files'
              /\ files'[path] = Png(call'.data, call'.title)
        /\ call'.data.kind # "dict"
           => /\ ret' = Raised("ValueError")
              /\ dirs' = dirs
              /\ files' = files

\* C7, over every step that is a call of plot_dict_and_save: the directories
\* are made and the image left, or ValueError is raised and nothing changes.
C7_DirectoriesMadeThenImage ==
    [][(call = Idle /\ call'.op = "plot") => C7_PlotStep]_vars

C7_Witness ==
    /\ PlotDone
    /\ call.data.kind = "dict"
    /\ call.save_path = Str(<<"out", "/", "dir", "/", "c", ".", "png">>)
    /\ {<<"out">>, <<"out", "/", "dir">>} \subseteq eff.made
    /\ call.save_path.path \in DOMAIN files

ReadDone == call.op = "read"

\* The path with the extension of its file name replaced by .parquet.
ExtensionReplaced(p) ==
    (IF LastIndexOf(p, ".") > LastIndexOf(p, "/")
     THEN SubSeq(p, 1, LastIndexOf(p, ".") - 1) ELSE p) \o <<".", "parquet">>

\* C8 as stated: read_csv_with_arrow never raises; it returns the table only
\* when the parse and the columnar write succeeded and None otherwise;
\* without to_parquet it writes nothing; with no parquet_path the columnar
\* file is written at the input path with its extension replaced.
C8_ReadBestEffort ==
    ReadDone =>
        /\ ret.how = "return"
        /\ ret.val.kind \in {"Table", "None"}
        /\ ret.val.kind = "Table" =>
              /\ call.path \in DOMAIN files
              /\ ret.val = csv_parse(files[call.path])
              /\ call.to_parquet => eff.made # {}
        /\ ret.val.kind = "None" => eff.made = {}
        /\ ~call.to_parquet => eff.made = {}
        /\ (call.to_parquet /\ call.parquet_path.kind = "None" /\ ret.val.kind = "Table")
              => eff.made = {ExtensionReplaced(call.path)}

(***************************************************************************)
(* Properties of get_current_weather.                                      *)
(***************************************************************************)
WeatherDone == call.op = "weather"

\* C9: a call of get_current_weather issues exactly one GET, to the endpoint
\* with the city in its path; on a response it returns the body as it is; on
\* a transport failure the error is raised to the caller, no value returned.
C9_OneGetBodyOrRaise ==
    WeatherDone =>
        /\ eff.gets = <<<<Endpoint, "/", call.city>>>>
        /\ call.net.ok => ret = Returned(Text(call.net.body))
        /\ ~call.net.ok => ret = Raised(call.net.exc)

C9_Witness == WeatherDone /\ ~call.net.ok /\ ret.how = "raise" /\ Len(eff.gets) = 1

(***************************************************************************)
(* Two different tools at once.                                            *)
(***************************************************************************)

\* What the call j does when it runs alone from the initial state.
Alone(j) ==
    CASE j.op = "plot" -> plot_dict_and_save(j.data, j.title, j.save_path, ConcDirs, ConcFiles)
      [] j.op = "write" -> write_table_to_csv(j.table, j.path, ConcDirs, ConcFiles)
      [] j.op = "read" ->
            read_csv_with_arrow(j.path, j.display, j.to_parquet, j.parquet_path,
                                ConcDirs, ConcFiles)
      [] j.op = "secret" ->
            Outcome(get_secret_word(rng.stream[1]), ConcDirs, ConcFiles, {}, 0)
      [] j.op = "add" -> Outcome(add(j.a, j.b), ConcDirs, ConcFiles, {}, 0)
      [] j.op = "filter" ->
            Outcome(filter_arrow_table_by_expr(j.table, j.expr, rangeTake),
                    ConcDirs, ConcFiles, {}, 0)
      [] OTHER -> Outcome(get_current_weather(j.city, j.net).ret, ConcDirs, ConcFiles, {}, 0)

BothDone == pcs # <<>> /\ \A w \in Workers : pcs[w] = "done"

\* C10: when two different tools run at once on disjoint paths, whatever the
\* interleaving of their statements, each returns what it returns alone, and
\* the file system and the figure registry end as the two calls alone leave
\* them.
C10_NoInterference ==
    BothDone =>
        LET a1 == Alone(job[1])
            a2 == Alone(job[2])
        IN  /\ out[1] = a1.ret
            /\ out[2] = a2.ret
            /\ dirs = a1.dirs \cup a2.dirs
            /\ DOMAIN files = DOMAIN a1.files \cup DOMAIN a2.files
            /\ \A p \in DOMAIN files :
                  files[p] = IF p \in a1.made THEN a1.files[p]
                             ELSE IF p \in a2.made THEN a2.files[p]
                             ELSE ConcFiles[p]
            /\ figs = a1.opened + a2.opened

C10_Witness ==
    /\ BothDone
    /\ \E w \in Workers :
          /\ job[w].op = "plot" /\ out[w] = Returned(None)
          /\ job[3 - w].op = "write" /\ out[3 - w] = Returned(Bool(TRUE))

====
